---- MODULE Spec2Model ----
(***************************************************************************)
(* uKernel: a cooperative round-robin task scheduler for microcontrollers. *)
(* The model follows src/uKernel.c operation by operation: the scheduler   *)
(* globals, the caller-owned task descriptors with their intrusive ring    *)
(* link, the API calls, one iteration of the dispatch loop (split at the   *)
(* call of the task body, during which the body may call the API), the     *)
(* external millisecond tick and the busy-wait delay.                      *)
(***************************************************************************)
EXTENDS Integers, Naturals, Sequences, FiniteSets, TLC

\* ------------------------------------------------------------------ bounds

\* Width of the tick counter and of plannedTask in the model (the source
\* uses uint32_t; every sum and difference is reduced modulo 2^CounterBits).
CounterBits == 4

\* The number of invocations counted per descriptor saturates here.
MaxRuns == 2

\* The ring specifications stop adding once _numberTasks has got this far.
MaxCount == 3

\* ------------------------------------------------------- program constants

MAX_TASKS_NUMBER == 255

MAX_TASK_INTERVAL == 3600000

DEFAULT_INTERVAL == 50

uKernel_PAUSED == 0

uKernel_SCHEDULED == 1

uKernel_ONETIME == 2

uKernel_IMMEDIATESTART == 5

uKernel_ONETIME_IMMEDIATESTART == 7

uKernel_ERROR == 255

\* _numberTasks is a uint8_t.
U8 == 256

\* C's bool as the model stores a return value; NoRet: nothing returned yet.
true == 1

false == 0

NoRet == 0 - 1

\* ------------------------------------------------------------- the values

\* The caller-owned descriptors (objects of static storage duration).
Descr == {"d1", "d2", "d3"}

NULL == "NULL"

\* A task body: the one non-null function pointer the model hands out.
CB == "cb"

CounterMod == 2 ^ CounterBits

HalfMod == CounterMod \div 2

U32(x) == x % CounterMod

\* (int32_t) of an unsigned value of the counter's width.
Signed(x) == IF x >= HalfMod THEN x - CounterMod ELSE x

\* s & b for a single-bit mask b.
HasBit(s, b) == (s \div b) % 2 = 1

Min(a, b) == IF a < b THEN a ELSE b

VARIABLES
    _initialized,       \* uint8_t _initialized
    _counterMs,         \* uint32_t _counterMs
    _numberTasks,       \* uint8_t _numberTasks
    pTaskSchedule,      \* the dispatch cursor
    pTaskFirst,         \* the ring head
    taskPointer,        \* descriptor fields, one function per field
    userTasksInterval,
    plannedTask,
    taskStatus,
    pTaskNext,
    pc,                 \* "main": host code before uKernelScheduler();
                        \* "loop": top of the while(1); "task": inside a body
    branch,             \* which call site of the loop the body returns to
    running,            \* the descriptor whose body is executing
    fault,              \* "none", or the undefined behaviour the run ended in
    ret,                \* the value the last API call returned
    dly,                \* uKernelDelayMiliseconds: its locals and outcome
    registered,         \* history: added with success and not removed since
    regOrder,           \* history: the adds since the ring was last emptied
    orderValid,         \* history: no removal / re-add of a member since then
    invoked,            \* history: the last two bodies invoked by inspections
                        \* in a row; empty after an inspection that invoked none
    runs,               \* history: invocations of a one-shot body since its add
    oneShot,            \* history: added as a one-time task, no resume or
                        \* modify since
    timing              \* history: by which write a descriptor's due time was
                        \* planned ("add": its registration, "run": the
                        \* reschedule at a dispatch) and how many ticks are
                        \* still left until then; "none" once it was invoked
                        \* or paused, resumed, modified, removed or purged

kernelVars == <<_initialized, _counterMs, _numberTasks, pTaskSchedule, pTaskFirst>>

descVars == <<taskPointer, userTasksInterval, plannedTask, taskStatus, pTaskNext>>

ctlVars == <<pc, branch, running, fault>>

histVars == <<registered, regOrder, orderValid, invoked, runs, oneShot, timing>>

vars == <<kernelVars, descVars, ctlVars, ret, dly, histVars>>

\* No due time is being followed for a descriptor.
Untimed == [by |-> "none", left |-> 0]

\* The due time planned by a write of kind by, n ticks from now, for a task
\* of interval i.  Due times are followed for tasks whose interval is below
\* half the counter's period.
Timed(by, n, i) == IF i < HalfMod THEN [by |-> by, left |-> n] ELSE Untimed

\* n ticks later: a due time is followed until it lies half a period back.
Elapse(tm, n) ==
    IF tm.by = "none" THEN tm
    ELSE IF tm.left - n > 0 - HalfMod THEN [tm EXCEPT !.left = tm.left - n]
    ELSE Untimed

DlyIdle == [st |-> "idle", delay |-> 0, t0 |-> 0, newTime |-> 0, tret |-> 0]

\* The state before main() runs: zero-initialised globals and descriptors.
Init ==
    /\ _initialized = false
    /\ _counterMs = 0
    /\ _numberTasks = 0
    /\ pTaskSchedule = NULL
    /\ pTaskFirst = NULL
    /\ taskPointer = [d \in Descr |-> NULL]
    /\ userTasksInterval = [d \in Descr |-> 0]
    /\ plannedTask = [d \in Descr |-> 0]
    /\ taskStatus = [d \in Descr |-> 0]
    /\ pTaskNext = [d \in Descr |-> NULL]
    /\ pc = "main"
    /\ branch = "none"
    /\ running = NULL
    /\ fault = "none"
    /\ ret = NoRet
    /\ dly = DlyIdle
    /\ registered = {}
    /\ regOrder = <<>>
    /\ orderValid = TRUE
    /\ invoked = <<>>
    /\ runs = [d \in Descr |-> 0]
    /\ oneShot = [d \in Descr |-> FALSE]
    /\ timing = [d \in Descr |-> Untimed]

\* An API call is made by host code before the loop starts or by a task body.
CanCall == fault = "none" /\ pc \in {"main", "task"} /\ dly.st # "wait"

\* The run ends in undefined behaviour (a null dereference) or never returns
\* from a list walk; nothing is written before either is met.
Fault(kind) ==
    /\ fault' = kind
    /\ UNCHANGED <<kernelVars, descVars, pc, branch, running, ret, dly, histVars>>

\* ------------------------------------------------------------ uKernelInit

uKernelInit ==
    /\ CanCall
    /\ _initialized' = true
    /\ _counterMs' = 0
    /\ _numberTasks' = 0
    /\ pTaskSchedule' = NULL
    /\ registered' = {}
    /\ regOrder' = <<>>
    /\ orderValid' = (pTaskFirst = NULL)
    /\ invoked' = <<>>
    /\ timing' = [d \in Descr |-> Untimed]
    /\ UNCHANGED <<pTaskFirst, descVars, ctlVars, ret, dly, runs, oneShot>>

\* --------------------------------------------------------- uKernelAddTask

\* uKernel.c:44-48 without the capacity test.
AddTaskRejects_NoCapacity(userTask) ==
    (_initialized = false) \/ (userTask = NULL)

\* uKernel.c:44-48 without the test of _initialized.
AddTaskRejects_NoInit(userTask) ==
    (_numberTasks = MAX_TASKS_NUMBER) \/ (userTask = NULL)

AddTaskRejects(userTask) ==
    (_initialized = false) \/ (_numberTasks = MAX_TASKS_NUMBER) \/ (userTask = NULL)

NormInterval(taskInterval) ==
    IF (taskInterval < 1) \/ (taskInterval > MAX_TASK_INTERVAL)
    THEN DEFAULT_INTERVAL ELSE taskInterval

NormStatus(s) ==
    IF s > uKernel_ONETIME_IMMEDIATESTART THEN uKernel_SCHEDULED ELSE s

\* The while loop of uKernel.c:69-73 from pTaskWork = w: the first descriptor
\* on the way whose pTaskNext is pTaskFirst.  The walk is deterministic over
\* finitely many descriptors, so one that has not ended after k = |Descr|
\* descriptors never ends ("hang"); reading pTaskNext through a null
\* pTaskWork is undefined behaviour ("null").
RECURSIVE FindLast(_, _)
FindLast(w, k) ==
    IF w = NULL THEN "null"
    ELSE IF pTaskNext[w] = pTaskFirst THEN w
    ELSE IF k = 0 THEN "hang"
    ELSE FindLast(pTaskNext[w], k - 1)

\* The new descriptor goes right behind the head instead of behind the tail.
LinkAfterHead(last, d) ==
    [[pTaskNext EXCEPT ![d] = pTaskNext[pTaskFirst]] EXCEPT ![pTaskFirst] = d]

\* uKernel.c:74 and 76, in that order.
LinkAtTail(last, d) ==
    [[pTaskNext EXCEPT ![last] = d] EXCEPT ![d] = pTaskFirst]

\* uKernel.c:88-89: (taskStatus & 0x04) ? 0 : taskInterval
FirstWait(i, s) == IF HasBit(s, 4) THEN 0 ELSE i

\* uKernel.c:85-98 and the history of a successful add.
AddCommon(d, userTask, i, s) ==
    /\ plannedTask' = [plannedTask EXCEPT ![d] = U32(_counterMs + FirstWait(i, s))]
    /\ userTasksInterval' = [userTasksInterval EXCEPT ![d] = i]
    /\ taskPointer' = [taskPointer EXCEPT ![d] = userTask]
    /\ taskStatus' = [taskStatus EXCEPT ![d] = s % 4]
    /\ _numberTasks' = (_numberTasks + 1) % U8
    /\ ret' = true
    /\ registered' = registered \cup {d}
    /\ IF orderValid /\ d \notin registered
       THEN regOrder' = Append(regOrder, d) /\ orderValid' = TRUE
       ELSE regOrder' = <<>> /\ orderValid' = FALSE
    /\ runs' = [runs EXCEPT ![d] = 0]
    /\ oneShot' = [oneShot EXCEPT ![d] = HasBit(s, uKernel_ONETIME)]
    /\ timing' = [timing EXCEPT ![d] =
            IF s \in {uKernel_SCHEDULED, uKernel_ONETIME} THEN Timed("add", i, i)
            ELSE IF s \in {uKernel_IMMEDIATESTART, uKernel_ONETIME_IMMEDIATESTART}
            THEN Timed("add", 0, i)
            ELSE Untimed]
    /\ UNCHANGED <<_initialized, _counterMs, ctlVars, dly, invoked>>

uKernelAddTask(d, userTask, taskInterval, taskStatus_) ==
    /\ CanCall
    /\ IF AddTaskRejects(userTask)
       THEN /\ ret' = false
            /\ UNCHANGED <<kernelVars, descVars, ctlVars, dly, histVars>>
       ELSE LET i == NormInterval(taskInterval)
                s == NormStatus(taskStatus_)
            IN  IF d # NULL
                THEN IF pTaskFirst # NULL
                     THEN LET last == FindLast(pTaskSchedule, Cardinality(Descr))
                          IN  IF last \notin Descr
                              THEN Fault(last)
                              ELSE /\ pTaskNext' = LinkAtTail(last, d)
                                   /\ UNCHANGED <<pTaskFirst, pTaskSchedule>>
                                   /\ AddCommon(d, userTask, i, s)
                     ELSE /\ pTaskFirst' = d
                          /\ pTaskSchedule' = d
                          /\ pTaskNext' = [pTaskNext EXCEPT ![d] = d]
                          /\ AddCommon(d, userTask, i, s)
                ELSE \* "Delete all task of the scheduler"
                     /\ pTaskFirst' = NULL
                     /\ pTaskSchedule' = NULL
                     /\ ret' = true
                     /\ registered' = {}
                     /\ regOrder' = <<>>
                     /\ orderValid' = TRUE
                     /\ invoked' = <<>>
                     /\ timing' = [x \in Descr |-> Untimed]
                     /\ UNCHANGED <<_initialized, _counterMs, _numberTasks,
                                    descVars, ctlVars, dly, runs, oneShot>>

\* ------------------------------------------------------ uKernelRemoveTask

\* The while loop of uKernel.c:126-130 from pTaskCurr = c: the first
\* descriptor on the way whose pTaskNext is d.
RECURSIVE FindPred(_, _, _)
FindPred(c, d, k) ==
    IF c = NULL THEN "null"
    ELSE IF pTaskNext[c] = d THEN c
    ELSE IF k = 0 THEN "hang"
    ELSE FindPred(pTaskNext[c], d, k - 1)

uKernelRemoveTask(d) ==
    /\ CanCall
    /\ IF (_initialized = false) \/ (_numberTasks = 0) \/ (d = NULL)
       THEN /\ ret' = false
            /\ UNCHANGED <<kernelVars, descVars, ctlVars, dly, histVars>>
       ELSE LET pTaskCurr == FindPred(pTaskFirst, d, Cardinality(Descr))
            IN  IF pTaskCurr \notin Descr
                THEN Fault(pTaskCurr)
                ELSE /\ IF pTaskNext[pTaskCurr] = pTaskFirst
                        THEN /\ pTaskFirst' = pTaskNext[pTaskNext[pTaskCurr]]
                             /\ UNCHANGED pTaskNext
                        ELSE /\ pTaskNext' = [pTaskNext EXCEPT ![pTaskCurr] = pTaskNext[d]]
                             /\ UNCHANGED pTaskFirst
                     /\ _numberTasks' = (_numberTasks - 1) % U8
                     /\ ret' = true
                     /\ registered' = registered \ {d}
                     /\ regOrder' = <<>>
                     /\ orderValid' = FALSE
                     /\ invoked' = <<>>
                     /\ timing' = [timing EXCEPT ![d] = Untimed]
                     /\ UNCHANGED <<_initialized, _counterMs, pTaskSchedule,
                                    taskPointer, userTasksInterval, plannedTask,
                                    taskStatus, ctlVars, dly, runs, oneShot>>

\* ------------------------------------------- pause, resume, modify, status

\* uKernel.c:246-273; taskInterval = NULL is 0.
uKernelSetTask(d, taskInterval, tStatus) ==
    /\ CanCall
    /\ IF (_initialized = false) \/ (_numberTasks = MAX_TASKS_NUMBER) \/ (d = NULL)
       THEN /\ ret' = false
            /\ UNCHANGED <<kernelVars, descVars, ctlVars, dly, histVars>>
       ELSE /\ taskStatus' = [taskStatus EXCEPT ![d] = tStatus]
            /\ IF tStatus = uKernel_SCHEDULED
               THEN plannedTask' = [plannedTask EXCEPT ![d] =
                        U32(_counterMs + (IF taskInterval = 0
                                          THEN userTasksInterval[d]
                                          ELSE taskInterval))]
               ELSE UNCHANGED plannedTask
            /\ ret' = true
            /\ oneShot' = [oneShot EXCEPT
                    ![d] = oneShot[d] /\ tStatus = uKernel_PAUSED]
            /\ timing' = [timing EXCEPT ![d] = Untimed]
            /\ UNCHANGED <<kernelVars, taskPointer, userTasksInterval, pTaskNext,
                           ctlVars, dly, registered, regOrder, orderValid,
                           invoked, runs>>

uKernelPauseTask(d) == uKernelSetTask(d, 0, uKernel_PAUSED)

uKernelResumeTask(d, taskStatus_) == uKernelSetTask(d, 0, taskStatus_)

uKernelModifyTask(d, taskInterval, tStatus) ==
    /\ CanCall
    /\ IF (_initialized = false) \/ (_numberTasks = MAX_TASKS_NUMBER) \/ (d = NULL)
       THEN /\ ret' = false
            /\ UNCHANGED <<kernelVars, descVars, ctlVars, dly, histVars>>
       ELSE IF tStatus > uKernel_ONETIME_IMMEDIATESTART
       THEN /\ ret' = false
            /\ UNCHANGED <<kernelVars, descVars, ctlVars, dly, histVars>>
       ELSE /\ userTasksInterval' = [userTasksInterval EXCEPT ![d] = taskInterval]
            /\ taskStatus' = [taskStatus EXCEPT ![d] = tStatus]
            /\ plannedTask' = [plannedTask EXCEPT ![d] =
                    IF tStatus = uKernel_SCHEDULED \/ tStatus = uKernel_ONETIME
                    THEN U32(_counterMs + taskInterval) ELSE 0]
            /\ ret' = true
            /\ oneShot' = [oneShot EXCEPT ![d] = FALSE]
            /\ timing' = [timing EXCEPT ![d] = Untimed]
            /\ UNCHANGED <<kernelVars, taskPointer, pTaskNext, ctlVars, dly,
                           registered, regOrder, orderValid, invoked, runs>>

uKernelGetTaskStatus(d) ==
    /\ CanCall
    /\ ret' = IF (_initialized = false) \/ (_numberTasks = MAX_TASKS_NUMBER) \/ (d = NULL)
              THEN uKernel_ERROR ELSE taskStatus[d]
    /\ UNCHANGED <<kernelVars, descVars, ctlVars, dly, histVars>>

\* ------------------------------------------------------- uKernelScheduler

\* A plain unsigned comparison in place of the signed difference.
Due_Unsigned(d) == _counterMs >= plannedTask[d]

\* uKernel.c:210: (int32_t) (_counterMs - pTaskSchedule->plannedTask) >= 0
Due(d) == Signed(U32(_counterMs - plannedTask[d])) >= 0

\* uKernel.c:207 and 210: the inspected task is not paused and is due.
Fires(d) == taskStatus[d] > uKernel_PAUSED /\ Due(d)

\* The due time is left as it is.
Reschedule_Keep(d) == plannedTask[d]

\* uKernel.c:220-221: _counterMs + pTaskSchedule->userTasksInterval
Reschedule(d) == U32(_counterMs + userTasksInterval[d])

\* uKernel.c:232: pTaskSchedule->pTaskNext
NextSlot(d) == pTaskNext[d]

StartScheduler ==
    /\ fault = "none" /\ pc = "main" /\ dly.st # "wait"
    /\ pc' = "loop"
    /\ UNCHANGED <<kernelVars, descVars, branch, running, fault, ret, dly, histVars>>

\* The body of the slot at the cursor is called (uKernel.c:214 or 223).
Invoke(site) ==
    IF taskPointer[pTaskSchedule] = NULL
    THEN /\ fault' = "null"
         /\ UNCHANGED <<kernelVars, taskPointer, userTasksInterval, taskStatus,
                        pTaskNext, pc, branch, running, ret, dly, histVars>>
    ELSE /\ pc' = "task"
         /\ branch' = site
         /\ running' = pTaskSchedule
         /\ invoked' = IF invoked = <<>> THEN <<pTaskSchedule>>
                       ELSE <<invoked[Len(invoked)], pTaskSchedule>>
         /\ runs' = IF oneShot[pTaskSchedule]
                    THEN [runs EXCEPT
                            ![pTaskSchedule] = Min(runs[pTaskSchedule] + 1, MaxRuns)]
                    ELSE runs
         /\ timing' = [timing EXCEPT ![pTaskSchedule] =
                IF site = "scheduled"
                THEN Timed("run", userTasksInterval[pTaskSchedule],
                           userTasksInterval[pTaskSchedule])
                ELSE Untimed]
         /\ UNCHANGED <<kernelVars, taskPointer, userTasksInterval, taskStatus,
                        pTaskNext, fault, ret, dly, registered, regOrder,
                        orderValid, oneShot>>

\* One iteration of the while (1), up to the call of a task body if one is
\* made, to the end of the iteration otherwise (uKernel.c:204-236).
SchedulerStep ==
    /\ fault = "none" /\ pc = "loop"
    /\ IF pTaskSchedule # NULL /\ _numberTasks # 0
       THEN IF Fires(pTaskSchedule)
            THEN IF HasBit(taskStatus[pTaskSchedule], uKernel_ONETIME)
                 THEN /\ UNCHANGED plannedTask
                      /\ Invoke("onetime")
                 ELSE /\ plannedTask' = [plannedTask EXCEPT ![pTaskSchedule] =
                            Reschedule(pTaskSchedule)]
                      /\ Invoke("scheduled")
            ELSE /\ pTaskSchedule' = NextSlot(pTaskSchedule)
                 /\ invoked' = <<>>
                 /\ UNCHANGED <<_initialized, _counterMs, _numberTasks, pTaskFirst,
                                descVars, ctlVars, ret, dly, registered, regOrder,
                                orderValid, runs, oneShot, timing>>
       ELSE UNCHANGED vars

\* The task body returns: the rest of the iteration (uKernel.c:215, 229-233),
\* which reads the cursor again from the global pTaskSchedule.
TaskReturn ==
    /\ fault = "none" /\ pc = "task" /\ dly.st # "wait"
    /\ IF branch = "onetime" /\ pTaskSchedule = NULL
       THEN \* the body has returned; uKernel.c:215 writes through the cursor
            /\ fault' = "null"
            /\ pc' = "loop"
            /\ running' = NULL
            /\ UNCHANGED <<kernelVars, descVars, branch, ret, dly, histVars>>
       ELSE /\ taskStatus' = IF branch = "onetime"
                             THEN [taskStatus EXCEPT ![pTaskSchedule] = uKernel_PAUSED]
                             ELSE taskStatus
            /\ pTaskSchedule' = IF pTaskSchedule # NULL
                                THEN NextSlot(pTaskSchedule) ELSE NULL
            /\ pc' = "loop"
            /\ branch' = "none"
            /\ running' = NULL
            /\ UNCHANGED <<_initialized, _counterMs, _numberTasks, pTaskFirst,
                           taskPointer, userTasksInterval, plannedTask, pTaskNext,
                           fault, ret, dly, histVars>>

\* ----------------------------------------------------- the external tick

\* The time source increments _counterMs n times (uKernel.h:71).
Tick(n) ==
    /\ fault = "none"
    /\ _counterMs' = U32(_counterMs + n)
    /\ timing' = [d \in Descr |-> Elapse(timing[d], n)]
    /\ UNCHANGED <<_initialized, _numberTasks, pTaskSchedule, pTaskFirst,
                   descVars, ctlVars, ret, dly, registered, regOrder, orderValid,
                   invoked, runs, oneShot>>

\* ------------------------------------------------ uKernelDelayMiliseconds

\* uKernel.c:242: newTime is computed and the polling starts.
DelayStart(delay) ==
    /\ CanCall
    /\ dly' = [st |-> "wait", delay |-> delay, t0 |-> _counterMs,
               newTime |-> U32(_counterMs + delay), tret |-> 0]
    /\ UNCHANGED <<kernelVars, descVars, ctlVars, ret, histVars>>

\* uKernel.c:243: one evaluation of the loop condition.
DelayPoll ==
    /\ fault = "none" /\ dly.st = "wait"
    /\ IF _counterMs < dly.newTime
       THEN UNCHANGED vars
       ELSE /\ dly' = [dly EXCEPT !.st = "done", !.tret = _counterMs]
            /\ UNCHANGED <<kernelVars, descVars, ctlVars, ret, histVars>>

\* ------------------------------------------------------ specifications

AnyDescr == Descr \cup {NULL}

\* Spec: the ring.  Three descriptors; every add, purge, removal and init,
\* from host code before the loop and from task bodies during it.  Tasks are
\* added as IMMEDIATESTART with an interval of half the counter's period, and
\* the tick advances by that much, so that a task is due again a tick after
\* it ran.  The host adds a descriptor only while it is not registered, and
\* only while _numberTasks is below MaxCount.
Next ==
    \/ uKernelInit
    \/ \E d \in Descr \ registered :
          /\ _numberTasks < MaxCount
          /\ uKernelAddTask(d, CB, HalfMod, uKernel_IMMEDIATESTART)
    \/ uKernelAddTask(NULL, CB, HalfMod, uKernel_IMMEDIATESTART)
    \/ \E d \in AnyDescr : uKernelRemoveTask(d)
    \/ StartScheduler
    \/ SchedulerStep
    \/ TaskReturn
    \/ Tick(HalfMod)

Spec == Init /\ [][Next]_vars

\* SpecStatus: the status of a task.  Two descriptors; tasks are added as
\* SCHEDULED or ONETIME_IMMEDIATESTART, paused, resumed and modified with
\* statuses in and out of range, from host code and from task bodies; the
\* tick stands still.
StatusDescr == {"d1", "d2"}

AddStatuses == {uKernel_SCHEDULED, uKernel_ONETIME_IMMEDIATESTART}

SetStatuses == {uKernel_SCHEDULED, uKernel_IMMEDIATESTART, uKernel_ERROR}

NextStatus ==
    \/ uKernelInit
    \/ \E d \in StatusDescr \ registered, s \in AddStatuses :
          /\ _numberTasks < MaxCount
          /\ uKernelAddTask(d, CB, 1, s)
    \/ uKernelAddTask(NULL, CB, 1, uKernel_SCHEDULED)
    \/ \E d \in StatusDescr : uKernelPauseTask(d)
    \/ \E d \in StatusDescr, s \in SetStatuses : uKernelResumeTask(d, s)
    \/ \E d \in StatusDescr, s \in SetStatuses : uKernelModifyTask(d, 1, s)
    \/ StartScheduler
    \/ SchedulerStep
    \/ TaskReturn

SpecStatus == Init /\ [][NextStatus]_vars

\* SpecTime: the due time of a task.  One descriptor, the tick advancing
\* by one through every value of the counter, the task added, resumed and
\* modified at any tick, from host code and from its own body.
TimeDescr == {"d1"}

TimeStatuses == {uKernel_SCHEDULED, uKernel_ONETIME, uKernel_IMMEDIATESTART}

NextTime ==
    \/ uKernelInit
    \/ \E d \in TimeDescr \ registered, i \in {1, 3}, s \in TimeStatuses :
          /\ _numberTasks < MaxCount
          /\ uKernelAddTask(d, CB, i, s)
    \/ \E d \in TimeDescr : uKernelRemoveTask(d)
    \/ \E d \in TimeDescr : uKernelPauseTask(d)
    \/ \E d \in TimeDescr : uKernelResumeTask(d, uKernel_SCHEDULED)
    \/ \E d \in TimeDescr : uKernelModifyTask(d, 2, uKernel_ONETIME)
    \/ StartScheduler
    \/ SchedulerStep
    \/ TaskReturn
    \/ Tick(1)

SpecTime == Init /\ [][NextTime]_vars

\* SpecCapacity: _numberTasks up to MAX_TASKS_NUMBER.  Two descriptors,
\* added, removed and purged without a bound on the count (a purge empties
\* the ring and leaves _numberTasks as it is, so adds and purges in turn
\* take the count to its maximum).
CapDescr == {"d1", "d2"}

NextCapacity ==
    \/ uKernelInit
    \/ \E d \in CapDescr \ registered :
          uKernelAddTask(d, CB, HalfMod, uKernel_IMMEDIATESTART)
    \/ uKernelAddTask(NULL, CB, HalfMod, uKernel_IMMEDIATESTART)
    \/ \E d \in CapDescr : uKernelRemoveTask(d)
    \/ StartScheduler
    \/ SchedulerStep
    \/ TaskReturn

SpecCapacity == Init /\ [][NextCapacity]_vars

\* SpecDelay: the busy-wait delay, started at any tick, the tick advancing
\* by one while it polls.
DelayArgs == {0, 1, 3}

NextDelay ==
    \/ \E delay \in DelayArgs : DelayStart(delay)
    \/ DelayPoll
    \/ Tick(1)

SpecDelay == Init /\ [][NextDelay]_vars

\* SpecApi: the whole API called from host code with arguments of every
\* kind, before and after uKernelInit.  One descriptor, added, purged and
\* removed without a bound on the count, so that _numberTasks takes every
\* value from 0 to MAX_TASKS_NUMBER.
ApiDescr == {"d1"}

ApiBodies == {CB, NULL}

ApiStatuses == {uKernel_PAUSED, uKernel_SCHEDULED, uKernel_ONETIME_IMMEDIATESTART,
                uKernel_ERROR}

NextApi ==
    \/ uKernelInit
    \/ \E d \in ApiDescr \ registered, u \in ApiBodies, s \in ApiStatuses :
          uKernelAddTask(d, u, 1, s)
    \/ \E u \in ApiBodies, s \in ApiStatuses : uKernelAddTask(NULL, u, 1, s)
    \/ \E d \in ApiDescr \cup {NULL} : uKernelRemoveTask(d)
    \/ \E d \in ApiDescr \cup {NULL} : uKernelPauseTask(d)
    \/ \E d \in ApiDescr \cup {NULL}, s \in ApiStatuses : uKernelResumeTask(d, s)
    \/ \E d \in ApiDescr \cup {NULL}, s \in ApiStatuses : uKernelModifyTask(d, 1, s)
    \/ \E d \in ApiDescr \cup {NULL} : uKernelGetTaskStatus(d)

SpecApi == Init /\ [][NextApi]_vars

\* SpecReentrant: operations called by task bodies.  uKernelInit is called
\* by host code before the loop only; two descriptors are added as
\* IMMEDIATESTART or ONETIME_IMMEDIATESTART, so that bodies of both kinds run,
\* and every other operation is called from host code and from the running
\* body, on its own descriptor and on the other one.
ReentDescr == {"d1", "d2"}

ReentStatuses == {uKernel_IMMEDIATESTART, uKernel_ONETIME_IMMEDIATESTART}

NextReentrant ==
    \/ pc = "main" /\ uKernelInit
    \/ \E d \in ReentDescr \ registered, s \in ReentStatuses :
          /\ _numberTasks < MaxCount
          /\ uKernelAddTask(d, CB, 1, s)
    \/ uKernelAddTask(NULL, CB, 1, uKernel_SCHEDULED)
    \/ \E d \in ReentDescr : uKernelRemoveTask(d)
    \/ \E d \in ReentDescr : uKernelPauseTask(d)
    \/ \E d \in ReentDescr : uKernelResumeTask(d, uKernel_SCHEDULED)
    \/ \E d \in ReentDescr : uKernelModifyTask(d, 1, uKernel_IMMEDIATESTART)
    \/ StartScheduler
    \/ SchedulerStep
    \/ TaskReturn

SpecReentrant == Init /\ [][NextReentrant]_vars

\* ------------------------------------------------------------- the claims

Range(q) == {q[i] : i \in 1..Len(q)}

PosIn(q, d) == CHOOSE i \in 1..Len(q) : q[i] = d

\* The member registered after d, the first one after the last.
SuccIn(q, d) == IF PosIn(q, d) < Len(q) THEN q[PosIn(q, d) + 1] ELSE q[1]

\* The descriptors met by following pTaskNext from x, x included.
RECURSIVE ReachFrom(_, _)
ReachFrom(x, seen) ==
    IF x = NULL \/ x \in seen THEN seen
    ELSE ReachFrom(pTaskNext[x], seen \cup {x})

\* pTaskNext followed k times from x.
RECURSIVE Follow(_, _)
Follow(x, k) ==
    IF k = 0 \/ x = NULL THEN x ELSE Follow(pTaskNext[x], k - 1)

\* C1: registration order is dispatch order.  Whenever the loop invokes a
\* task body and the body it invoked at the inspection before was that of a
\* task of the current run of adds (adds with no removal since the ring was
\* last empty), the body invoked now is that of the task added next after
\* it, and that of the first one after the last: A, B, C, A, B, C, ...
\* wherever the cursor stood at each add.
C1_RegistrationOrder ==
    [][ (pc = "loop" /\ pc' = "task" /\ orderValid /\ invoked # <<>>
            /\ invoked[Len(invoked)] \in Range(regOrder))
        => running' = SuccIn(regOrder, invoked[Len(invoked)]) ]_vars

\* C1 witness: three tasks added in a row; the third has run and the pass
\* has wrapped round to the first.
C1_Witness ==
    /\ orderValid /\ Len(regOrder) = 3 /\ pc = "task"
    /\ invoked = <<regOrder[3], regOrder[1]>>

\* A ring of exactly the three registered tasks, head first.
CleanRing3 ==
    /\ orderValid /\ Len(regOrder) = 3 /\ _numberTasks = 3
    /\ pTaskFirst = regOrder[1]
    /\ pTaskNext[regOrder[1]] = regOrder[2]
    /\ pTaskNext[regOrder[2]] = regOrder[3]
    /\ pTaskNext[regOrder[3]] = regOrder[1]

\* C3: removing the head of a ring of three (head, B, C) with success leaves
\* the closed ring B.next = C, C.next = B.
C3_RemoveHeadClosesRing ==
    [][ (CleanRing3 /\ uKernelRemoveTask(pTaskFirst) /\ ret' = true)
        => /\ pTaskNext'[regOrder[2]] = regOrder[3]
           /\ pTaskNext'[regOrder[3]] = regOrder[2] ]_vars

\* C4: the ring is closed.  If _numberTasks > 0, following pTaskNext exactly
\* _numberTasks times from any registered descriptor returns to it, and no
\* registered descriptor's pTaskNext is null.
C4_RingClosed ==
    (fault = "none" /\ _numberTasks > 0) =>
        \A m \in registered :
            pTaskNext[m] # NULL /\ Follow(m, _numberTasks) = m

\* C5: the descriptors reachable from the head and from the cursor are
\* exactly the registered ones.
C5_RingMembership ==
    fault = "none" =>
        /\ ReachFrom(pTaskFirst, {}) = registered
        /\ ReachFrom(pTaskSchedule, {}) = registered

\* C6: with _numberTasks = 0 the head and the cursor are both null.
C6_EmptyRing ==
    (fault = "none" /\ _numberTasks = 0) =>
        (pTaskFirst = NULL /\ pTaskSchedule = NULL)

\* C2: one-shot semantics.  The body of a task added as a one-time task is
\* invoked at most once, and once it has been invoked and has returned the
\* task's status is PAUSED, as long as no resume, modify or add is applied
\* to the task.
C2_OneShot ==
    fault = "none" =>
        \A d \in Descr :
            oneShot[d] =>
                /\ runs[d] <= 1
                /\ (runs[d] = 1 /\ running # d) => taskStatus[d] = uKernel_PAUSED

\* C7: the status stored in a descriptor is PAUSED, SCHEDULED or ONETIME.
C7_StatusDomain ==
    \A d \in Descr :
        taskStatus[d] \in {uKernel_PAUSED, uKernel_SCHEDULED, uKernel_ONETIME}

C8_Capacity ==
    [][ (/\ _numberTasks = MAX_TASKS_NUMBER
         /\ \E d \in Descr : uKernelAddTask(d, CB, HalfMod, uKernel_IMMEDIATESTART))
        => (ret' = false /\ UNCHANGED <<kernelVars, descVars>>) ]_vars

\* C8 witness: an add has been refused with the count at its maximum.
C8_Witness ==
    /\ _initialized = true /\ _numberTasks = MAX_TASKS_NUMBER /\ ret = false
    /\ pTaskFirst # NULL /\ fault = "none"

\* C10: uKernelDelayMiliseconds(d) called at tick t0 does not return while
\* fewer than d ticks have elapsed since t0, also when t0 + d wraps past the
\* counter's maximum.
C10_DelayWaits ==
    dly.st = "done" =>
        (dly.tret + CounterMod - dly.t0) % CounterMod >= dly.delay

\* C11: while uKernelInit has not been called, add (the purge form too),
\* remove, pause, resume and modify return false and uKernelGetTaskStatus
\* returns uKernel_ERROR, for all arguments, and none of them changes a global
\* or a descriptor field.
C11_FailFastUninitialized ==
    [][ (_initialized = false) =>
        /\ ( \/ \E d \in AnyDescr, u \in ApiBodies, s \in ApiStatuses :
                    uKernelAddTask(d, u, 1, s)
             \/ \E d \in AnyDescr : uKernelRemoveTask(d)
             \/ \E d \in AnyDescr : uKernelPauseTask(d)
             \/ \E d \in AnyDescr, s \in ApiStatuses : uKernelResumeTask(d, s)
             \/ \E d \in AnyDescr, s \in ApiStatuses : uKernelModifyTask(d, 1, s) )
           => (ret' = false /\ UNCHANGED <<kernelVars, descVars>>)
        /\ (\E d \in AnyDescr : uKernelGetTaskStatus(d))
           => (ret' = uKernel_ERROR /\ UNCHANGED <<kernelVars, descVars>>) ]_vars

\* C11 witness: a status query has answered uKernel_ERROR before uKernelInit.
C11_Witness == _initialized = false /\ ret = uKernel_ERROR

\* C12: whenever the ring is empty (pTaskFirst is NULL), uKernelRemoveTask(d)
\* returns false for every d, null or not, without dereferencing a null
\* pointer and without changing a global or a descriptor field.
C12_RemoveOnEmptyRing ==
    [][ (pTaskFirst = NULL /\ \E d \in AnyDescr : uKernelRemoveTask(d))
        => (ret' = false /\ fault' = "none"
            /\ UNCHANGED <<kernelVars, descVars>>) ]_vars

\* C13: uKernelInit called in any state sets _initialized, clears _counterMs
\* and _numberTasks and empties the ring: pTaskFirst and pTaskSchedule are
\* both NULL after it.
C13_InitIsFullReset ==
    [][ uKernelInit
        => /\ _initialized' = true /\ _counterMs' = 0 /\ _numberTasks' = 0
           /\ pTaskFirst' = NULL /\ pTaskSchedule' = NULL ]_vars

\* C14: on an initialized scheduler uKernelAddTask with a null descriptor
\* returns true and empties the ring for every callback (a null one too),
\* interval and status and for every _numberTasks up to MAX_TASKS_NUMBER, and
\* leaves _numberTasks as it is.
C14_PurgeUnconditional ==
    [][ (_initialized = true
         /\ \E u \in ApiBodies, s \in ApiStatuses : uKernelAddTask(NULL, u, 1, s))
        => /\ ret' = true
           /\ pTaskFirst' = NULL /\ pTaskSchedule' = NULL
           /\ _numberTasks' = _numberTasks ]_vars

\* C15: uKernelGetTaskStatus(d) returns uKernel_ERROR when the scheduler is
\* uninitialized or d is null and the status stored in d in every other
\* state, whatever _numberTasks is from 0 to MAX_TASKS_NUMBER, and changes
\* nothing.
C15_GetTaskStatus ==
    [][ \A d \in AnyDescr : uKernelGetTaskStatus(d)
        => /\ ret' = IF (_initialized = false) \/ (d = NULL)
                     THEN uKernel_ERROR ELSE taskStatus[d]
           /\ UNCHANGED <<kernelVars, descVars>> ]_vars

\* C17: whatever scheduler operations the body of the task at the cursor
\* has called (add, purge, remove, pause, resume, modify), the rest of the
\* dispatch iteration after the body returns does not access a descriptor
\* through a null cursor.
C17_ReentrantSafe ==
    [][ TaskReturn => fault' = "none" ]_vars

\* C19: the dispatch loop invokes the body of a registered task only: a
\* descriptor whose removal returned true is not run again unless it is
\* added again.
C19_RemovedNeverRuns ==
    [][ (pc = "loop" /\ pc' = "task") => running' \in registered ]_vars

\* The number of dispatch iterations that pass before the cursor, now at x
\* and advanced by one slot per iteration, stands at d; more than the number
\* of descriptors if it never does.
RECURSIVE StepsTo(_, _, _)
StepsTo(x, d, k) ==
    IF x = d THEN 0
    ELSE IF x = NULL \/ k = 0 THEN Cardinality(Descr) + 1
    ELSE 1 + StepsTo(pTaskNext[x], d, k - 1)

\* C20: between two dispatch iterations, every registered task that is not
\* paused and is due is inspected, and so invoked, within _numberTasks
\* iterations as long as nothing mutates the ring: the cursor reaches it in
\* fewer than _numberTasks advances.
C20_NoStarvation ==
    (fault = "none" /\ pc = "loop" /\ _numberTasks > 0) =>
        \A d \in registered :
            (taskStatus[d] > uKernel_PAUSED /\ Due(d)) =>
                StepsTo(pTaskSchedule, d, Cardinality(Descr)) < _numberTasks

\* C16: a task registered at tick t with interval i is, when a dispatch
\* iteration is about to inspect it, not fired while fewer than i ticks have
\* passed since t, and fired once they have; registered with the
\* ImmediateStart modifier it is fired at the first iteration that
\* inspects it.  (No pause, resume, modify or removal of the task since its
\* registration, and the inspection within half a counter period of the due
\* time.)
C16_InitialDueTime ==
    (fault = "none" /\ pc = "loop" /\ pTaskSchedule # NULL /\ _numberTasks # 0
        /\ timing[pTaskSchedule].by = "add")
    => (Fires(pTaskSchedule) <=> timing[pTaskSchedule].left <= 0)

\* C18: when the loop fires a due Scheduled task at tick t, the due time is
\* t + interval already when the body starts; after the body returns the
\* loop writes to no descriptor field, so what the body wrote stays; and a
\* task whose due time was set by that reschedule is not invoked again
\* before interval ticks have passed.
C18_RescheduleBeforeBody ==
    [][ /\ (pc = "loop" /\ pc' = "task" /\ branch' = "scheduled")
            => plannedTask'[running'] =
                    (_counterMs + userTasksInterval[running']) % CounterMod
        /\ (pc = "task" /\ pc' = "loop" /\ branch = "scheduled")
            => (fault' = "none" /\ UNCHANGED descVars)
        /\ (pc = "loop" /\ pc' = "task" /\ timing[running'].by = "run")
            => timing[running'].left <= 0 ]_vars

\* C18 witness: a Scheduled task of interval 3 has been fired twice in a
\* row and its body starts with the due time three ticks ahead.
C18_Witness ==
    /\ pc = "task" /\ branch = "scheduled" /\ running = "d1"
    /\ invoked = <<"d1", "d1">>
    /\ userTasksInterval["d1"] = 3
    /\ plannedTask["d1"] = (_counterMs + 3) % CounterMod
    /\ timing["d1"] = [by |-> "run", left |-> 3]

====
